---- MODULE Spec2Model ----
(***************************************************************************)
(* The simulation lifecycle of internal/simulator/simulator.go:           *)
(* Start launches one orchestrator (simulation.start) per configured      *)
(* simulation; each runs init, runSimulation and tearDown and then        *)
(* releases the caller's WaitGroup.                                       *)
(***************************************************************************)
EXTENDS Integers, Sequences, FiniteSets, TLC

\* ------------------------------------------------------------------ bounds

\* number of entries of c.Simulator
MaxSims == 2
\* largest number of data rows of devices.csv
MaxRows == 2
\* largest configured gateway.max_count
MaxGateways == 2
\* largest configured activation_time (in ticks)
MaxActivation == 2

\* ------------------------------------------------------- program constants

\* readDevicesFromCSV: "if len(record) < 4"
MinFields == 4
\* readDevicesFromCSV: the Device literal reads record[0] .. record[5]
NumFields == 6

Sims == 1 .. MaxSims

\* ------------------------------------------------------------ pure helpers

\* value of one hexadecimal character, -1 when it is none (encoding/hex)
HexVal(c) ==
    CASE c = "0" -> 0
      [] c = "1" -> 1
      [] c = "a" -> 10
      [] c = "A" -> 10
      [] OTHER -> -1

\* hex.DecodeString: ok with the bytes of the text; not ok for an odd length
\* or a character that is no hex digit
DecodeString(text) ==
    IF Len(text) % 2 # 0 \/ \E i \in 1 .. Len(text) : HexVal(text[i]) < 0
    THEN [ok |-> FALSE, bytes |-> <<>>]
    ELSE [ok |-> TRUE,
          bytes |-> [i \in 1 .. (Len(text) \div 2) |->
                        16 * HexVal(text[2 * i - 1]) + HexVal(text[2 * i])]]

\* the zero value of lorawan.EUI64 (scaled to one byte)
ZeroEUI == <<0>>

\* whether EUI64.UnmarshalText returns nil: a hex string of the EUI's length
WellFormedEUI(text) ==
    LET b == DecodeString(text)
    IN  b.ok /\ Len(b.bytes) = Len(ZeroEUI)

\* "var devEUI lorawan.EUI64; devEUI.UnmarshalText(text)" with the returned
\* error dropped, as setupDevices does: devEUI stays zero when the text is
\* rejected
UnmarshalEUI(text) ==
    IF WellFormedEUI(text) THEN DecodeString(text).bytes ELSE ZeroEUI

\* csv.Reader.ReadAll with FieldsPerRecord = 0: every record must have as
\* many fields as the first one, else ErrFieldCount; os.Open fails on a
\* missing file
ReadAll(file) ==
    IF ~file.exists THEN [st |-> "err", records |-> <<>>]
    ELSE IF \E i \in 1 .. Len(file.records) :
                Len(file.records[i]) # Len(file.records[1])
    THEN [st |-> "err", records |-> <<>>]
    ELSE [st |-> "ok", records |-> file.records]

\* the Device literal built from one record; only DevEui (record[2]) is
\* read later
DeviceOf(record) == [DevEui |-> record[3]]

\* one data row: "err" when the length check rejects it, "panic" when the
\* Device literal indexes past its end, else "ok"
RowStatus(record) ==
    IF Len(record) < MinFields THEN "err"
    ELSE IF Len(record) < NumFields THEN "panic"
    ELSE "ok"

RECURSIVE ScanRows(_, _)
\* the loop over records[i ..]: stops at the first row that fails
ScanRows(records, i) ==
    IF i > Len(records) THEN [st |-> "ok", devices |-> <<>>]
    ELSE IF RowStatus(records[i]) # "ok"
    THEN [st |-> RowStatus(records[i]), devices |-> <<>>]
    ELSE LET rest == ScanRows(records, i + 1)
         IN  IF rest.st # "ok" THEN rest
             ELSE [st |-> "ok",
                   devices |-> <<DeviceOf(records[i])>> \o rest.devices]

\* readDevicesFromCSV: st is "ok" with the devices of the data rows, "err"
\* for a returned error, "panic" for an index out of range
readDevicesFromCSV(file) ==
    LET r == ReadAll(file)
    IN  IF r.st # "ok" THEN [st |-> "err", devices |-> <<>>]
        ELSE ScanRows(r.records, 2)

\* ------------------------------------------------------------------ inputs

\* one field of a record that is not the device identity
Filler == <<"x">>

\* DevEui texts of the device list: two distinct identities, a second
\* spelling of one of them, and a text UnmarshalText rejects
EuiTexts == {<<"0", "1">>, <<"0", "a">>, <<"0", "A">>, <<"0">>}

\* a record of nf fields whose third field is text
Record(nf, text) == [i \in 1 .. nf |-> IF i = 3 THEN text ELSE Filler]

\* devices.csv as a header record followed by the given data rows
FileOf(nf, rows) ==
    [exists |-> TRUE, records |-> <<Record(nf, Filler)>> \o rows]

\* files whose records all have NumFields fields
ShapedFiles ==
    {FileOf(NumFields, [i \in 1 .. n |-> Record(NumFields, t[i])]) :
        n \in 0 .. MaxRows, t \in [1 .. MaxRows -> EuiTexts]}

\* files whose records all have the same, too small, number of fields
ShortFiles ==
    {FileOf(nf, [i \in 1 .. n |-> Record(nf, <<"0", "1">>)]) :
        nf \in (MinFields - 1) .. (NumFields - 1), n \in 1 .. MaxRows}

\* a file whose data row is shorter than its header, and no file at all
OddFiles ==
    {FileOf(NumFields, <<Record(NumFields - 1, <<"0", "1">>)>>),
     [exists |-> FALSE, records |-> <<>>]}

Files == ShapedFiles \cup ShortFiles \cup OddFiles

\* one entry of c.Simulator, reduced to the fields the lifecycle reads
Configs ==
    {c \in [payloadOK : BOOLEAN,
            duration : {0, 1},
            gatewayMinCount : 0 .. MaxGateways,
            gatewayMaxCount : 0 .. MaxGateways,
            activationTime : 0 .. MaxActivation] :
        c.gatewayMinCount <= c.gatewayMaxCount}

\* a simulation with one gateway, no duration and a payload that decodes
PlainConfig ==
    [payloadOK |-> TRUE, duration |-> 0, gatewayMinCount |-> 1,
     gatewayMaxCount |-> 1, activationTime |-> 1]

\* a device list of MaxRows rows with distinct, well-formed identities
PlainFile ==
    FileOf(NumFields,
           [i \in 1 .. MaxRows |->
                Record(NumFields, IF i = 1 THEN <<"0", "1">> ELSE <<"0", "a">>)])

\* the runs explored, as pairs <<c.Simulator, devices.csv>>: one simulation
\* with any device list; one simulation with any gateway range and
\* activation time; one simulation with any duration and payload; several
\* simulations with any payloads and a list of at most one row
FileRuns == {<<(<<PlainConfig>>), f>> : f \in Files}

TopologyRuns ==
    {<<(<<c>>), PlainFile>> :
        c \in {x \in Configs : x.payloadOK /\ x.duration = 0}}

LifecycleRuns ==
    {<<(<<c>>), PlainFile>> :
        c \in {x \in Configs : /\ x.gatewayMinCount = 1
                               /\ x.gatewayMaxCount = 1
                               /\ x.activationTime = 1}}

ConcurrentRuns ==
    {<<c, f>> :
        c \in UNION {[1 .. n -> {x \in Configs : /\ x.duration = 0
                                                 /\ x.gatewayMinCount = 1
                                                 /\ x.gatewayMaxCount = 1
                                                 /\ x.activationTime = 1}] :
                        n \in 2 .. MaxSims},
        f \in {x \in Files :
                  /\ Len(x.records) <= 2
                  /\ \A i \in 2 .. Len(x.records) :
                        x.records[i][3] = <<"0", "1">>}}

Runs == FileRuns \cup TopologyRuns \cup LifecycleRuns \cup ConcurrentRuns

\* ------------------------------------------------------------------- state

VARIABLES
    csvFile,        \* the content of devices.csv
    cfg,            \* c.Simulator: a sequence of Configs
    proc,           \* how: "running", or how the process ended; by: whose step
    parentDone,     \* the ctx given to Start has been cancelled
    wg,             \* the counter of the WaitGroup given to Start
    startI,         \* Start: index of the next entry of c.Simulator
    startRet,       \* Start: "running", or what it returned: "nil", "err"
    released,       \* the caller's wg.Wait() has returned
    pc,             \* per simulation: where simulation.start is
    phases,         \* per simulation: the phases entered so far, in order
    phaseErr,       \* per simulation: phase -> the error it returned
    tenant,         \* s.tenant is set
    gatewayIDs,     \* s.gatewayIDs
    applicationID,  \* s.applicationID is set
    subscribed,     \* the uplink subscription is in place
    devices,        \* setupDevices: the devices read from the file
    spawned,        \* setupDevices: number of tasks started
    provWg,         \* setupDevices: counter of its WaitGroup
    task,           \* setupDevices: the provisioning goroutines
    mutex,          \* s.deviceAppKeysMutex: 0, or the task holding it
    deviceAppKeys,  \* s.deviceAppKeys
    createCalls,    \* tasks that have issued CreateDevice
    deleteCalls,    \* identities for which DeleteDevice was issued
    gateways,       \* runSimulation: number of gateway objects built
    ctx,            \* runSimulation: the run-phase context
    todo,           \* runSimulation: keys of deviceAppKeys not yet visited
    cur,            \* runSimulation: the key being visited
    devNumGateways, \* runSimulation: devNumGateways
    devGateways,    \* runSimulation: keys of the devGateways map
    units,          \* runSimulation: the devices created (devEUI -> unit)
    runWg,          \* runSimulation: counter of its WaitGroup
    listener,       \* runSimulation: the signal goroutine
    setupLog,       \* init: the sub-steps entered so far, in order
    tdLog,          \* tearDown: the steps entered so far, in order
    delTodo         \* tearDownDevices: keys not yet visited

globalVars == <<csvFile, cfg, proc, parentDone, wg, startI, startRet, released>>
phaseVars == <<pc, phases, phaseErr>>
setupVars == <<tenant, gatewayIDs, applicationID, subscribed, devices, spawned,
               provWg, task, mutex, deviceAppKeys, createCalls>>
runVars == <<gateways, ctx, todo, cur, devNumGateways, devGateways, units,
             runWg, listener>>
downVars == <<deleteCalls, tdLog, delTodo>>
vars == <<globalVars, phaseVars, setupVars, runVars, downVars, setupLog>>

\* the simulations of the configuration
Configured == DOMAIN cfg

Alive == proc.how = "running"

NoKeys == <<>>
NoCtx == [made |-> FALSE, deadline |-> FALSE, cancelled |-> FALSE,
          timedOut |-> FALSE]

\* the state when Start is called with configuration c and file f: each
\* simulation struct is built by Start with an empty deviceAppKeys map
InitWith(c, f) ==
    /\ csvFile = f
    /\ cfg = c
    /\ proc = [how |-> "running", by |-> 0]
    /\ parentDone = FALSE
    /\ wg = 0
    /\ startI = 1
    /\ startRet = "running"
    /\ released = FALSE
    /\ pc = [s \in Sims |-> "new"]
    /\ phases = [s \in Sims |-> <<>>]
    /\ phaseErr = [s \in Sims |-> <<>>]
    /\ tenant = [s \in Sims |-> FALSE]
    /\ gatewayIDs = [s \in Sims |-> <<>>]
    /\ applicationID = [s \in Sims |-> FALSE]
    /\ subscribed = [s \in Sims |-> FALSE]
    /\ devices = [s \in Sims |-> <<>>]
    /\ spawned = [s \in Sims |-> 0]
    /\ provWg = [s \in Sims |-> 0]
    /\ task = [s \in Sims |-> <<>>]
    /\ mutex = [s \in Sims |-> 0]
    /\ deviceAppKeys = [s \in Sims |-> NoKeys]
    /\ createCalls = [s \in Sims |-> {}]
    /\ deleteCalls = [s \in Sims |-> {}]
    /\ gateways = [s \in Sims |-> 0]
    /\ ctx = [s \in Sims |-> NoCtx]
    /\ todo = [s \in Sims |-> {}]
    /\ cur = [s \in Sims |-> ZeroEUI]
    /\ devNumGateways = [s \in Sims |-> 0]
    /\ devGateways = [s \in Sims |-> {}]
    /\ units = [s \in Sims |-> NoKeys]
    /\ runWg = [s \in Sims |-> 0]
    /\ listener = [s \in Sims |-> "none"]
    /\ setupLog = [s \in Sims |-> <<>>]
    /\ tdLog = [s \in Sims |-> <<>>]
    /\ delTodo = [s \in Sims |-> {}]

\* ------------------------------------------------------------------- Start

\* one iteration of the loop of Start whose payload decodes: wg.Add(1), the
\* simulation struct is built and "go sim.start()" launches it
StartLaunch ==
    /\ Alive /\ startRet = "running"
    /\ startI \in Configured
    /\ cfg[startI].payloadOK
    /\ wg' = wg + 1
    /\ pc' = [pc EXCEPT ![startI] = "init"]
    /\ startI' = startI + 1
    /\ UNCHANGED <<csvFile, cfg, proc, parentDone, startRet, released>>
    /\ UNCHANGED <<phases, phaseErr, setupVars, runVars, downVars>>
    /\ UNCHANGED setupLog

\* the iteration whose payload does not decode: wg.Add(1) has been done,
\* then Start returns the error
StartDecodeError ==
    /\ Alive /\ startRet = "running"
    /\ startI \in Configured
    /\ ~cfg[startI].payloadOK
    /\ wg' = wg + 1
    /\ startRet' = "err"
    /\ UNCHANGED <<csvFile, cfg, proc, parentDone, startI, released>>
    /\ UNCHANGED <<phaseVars, setupVars, runVars, downVars>>
    /\ UNCHANGED setupLog

\* the loop is over: Start returns nil
StartReturn ==
    /\ Alive /\ startRet = "running"
    /\ startI \notin Configured
    /\ startRet' = "nil"
    /\ UNCHANGED <<csvFile, cfg, proc, parentDone, wg, startI, released>>
    /\ UNCHANGED <<phaseVars, setupVars, runVars, downVars>>
    /\ UNCHANGED setupLog

\* the caller of Start waits on the WaitGroup once Start has returned nil
SupervisorWait ==
    /\ Alive /\ startRet = "nil" /\ ~released
    /\ wg = 0
    /\ released' = TRUE
    /\ UNCHANGED <<csvFile, cfg, proc, parentDone, wg, startI, startRet>>
    /\ UNCHANGED <<phaseVars, setupVars, runVars, downVars>>
    /\ UNCHANGED setupLog

\* the caller cancels the context it gave to Start
ParentCancel ==
    /\ Alive /\ ~parentDone
    /\ parentDone' = TRUE
    /\ UNCHANGED <<csvFile, cfg, proc, wg, startI, startRet, released>>
    /\ UNCHANGED <<phaseVars, setupVars, runVars, downVars>>
    /\ UNCHANGED setupLog

\* ------------------------------------------------------- simulation.start

\* start() as it would be if a phase that failed made it give up
StartNextStopOnError(phase, err) ==
    IF err # "nil" THEN "wgDone"
    ELSE CASE phase = "init" -> "runSimulation"
           [] phase = "runSimulation" -> "tearDown"
           [] phase = "tearDown" -> "wgDone"

\* what start() calls once a phase has returned, whatever it returned
StartNext(phase, err) ==
    CASE phase = "init" -> "runSimulation"
      [] phase = "runSimulation" -> "tearDown"
      [] phase = "tearDown" -> "wgDone"

\* a phase returns err ("nil" for no error) to start()
Return(s, phase, err) ==
    /\ pc' = [pc EXCEPT ![s] = StartNext(phase, err)]
    /\ phaseErr' = [phaseErr EXCEPT ![s] = Append(@, err)]

\* a step of a phase hands over to the next step
Goto(s, step) ==
    /\ pc' = [pc EXCEPT ![s] = step]
    /\ phaseErr' = phaseErr

\* the process ends in a step of simulation s: log.Fatal calls os.Exit
\* ("fatal"), an unrecovered panic in any goroutine ends the program ("panic")
Exit(how, s) == proc' = [how |-> how, by |-> s]

\* start() as it would be if it ended without s.wg.Done()
wgDoneMissing(s) ==
    /\ Alive /\ pc[s] = "wgDone"
    /\ pc' = [pc EXCEPT ![s] = "Done"]
    /\ UNCHANGED <<globalVars, phases, phaseErr, setupVars, runVars, downVars>>
    /\ UNCHANGED setupLog

\* s.wg.Done() at the end of start()
wgDone(s) ==
    /\ Alive /\ pc[s] = "wgDone"
    /\ wg' = wg - 1
    /\ pc' = [pc EXCEPT ![s] = "Done"]
    /\ UNCHANGED <<csvFile, cfg, proc, parentDone, startI, startRet, released>>
    /\ UNCHANGED <<phases, phaseErr, setupVars, runVars, downVars>>
    /\ UNCHANGED setupLog

\* ------------------------------------------------------------------- init

\* start() calls s.init()
init(s) ==
    /\ Alive /\ pc[s] = "init"
    /\ phases' = [phases EXCEPT ![s] = Append(@, "init")]
    /\ Goto(s, "setupTenant")
    /\ UNCHANGED <<globalVars, setupVars, runVars, downVars>>
    /\ UNCHANGED setupLog

\* a sub-step of init is entered
Begin(s, step) == setupLog' = [setupLog EXCEPT ![s] = Append(@, step)]

\* setupTenant: the remote GetTenant answers
setupTenantOk(s) ==
    /\ Alive /\ pc[s] = "setupTenant"
    /\ tenant' = [tenant EXCEPT ![s] = TRUE]
    /\ Goto(s, "setupGateways")
    /\ UNCHANGED <<gatewayIDs, applicationID, subscribed, devices, spawned,
                   provWg, task, mutex, deviceAppKeys, createCalls>>
    /\ UNCHANGED <<globalVars, phases, runVars, downVars>>
    /\ Begin(s, "setupTenant")

\* setupTenant: GetTenant fails, init returns the error
setupTenantErr(s) ==
    /\ Alive /\ pc[s] = "setupTenant"
    /\ Return(s, "init", "get tenant error")
    /\ UNCHANGED <<globalVars, phases, setupVars, runVars, downVars>>
    /\ Begin(s, "setupTenant")

\* the identity every gateway gets: UnmarshalText of "1020304050607080"
FixedGatewayID == "1020304050607080"

\* a loop that appends one identity fewer than asked for
GatewayIDsOneShort(n) == [i \in 1 .. (n - 1) |-> FixedGatewayID]

\* what "for i := 0; i < n; i++" appends: n times the fixed identity
GatewayIDsOf(n) == [i \in 1 .. n |-> FixedGatewayID]

\* setupGateways: gatewayMaxCount identities appended; no remote call
setupGateways(s) ==
    /\ Alive /\ pc[s] = "setupGateways"
    /\ gatewayIDs' = [gatewayIDs EXCEPT ![s] =
            @ \o GatewayIDsOf(cfg[s].gatewayMaxCount)]
    /\ Goto(s, "setupDeviceProfile")
    /\ UNCHANGED <<tenant, applicationID, subscribed, devices, spawned,
                   provWg, task, mutex, deviceAppKeys, createCalls>>
    /\ UNCHANGED <<globalVars, phases, runVars, downVars>>
    /\ Begin(s, "setupGateways")

\* setupDeviceProfile: uuid.FromString of a constant that is a valid UUID
setupDeviceProfile(s) ==
    /\ Alive /\ pc[s] = "setupDeviceProfile"
    /\ Goto(s, "setupApplication")
    /\ UNCHANGED <<globalVars, phases, setupVars, runVars, downVars>>
    /\ Begin(s, "setupDeviceProfile")

\* setupApplication: the remote GetApplication answers
setupApplicationOk(s) ==
    /\ Alive /\ pc[s] = "setupApplication"
    /\ applicationID' = [applicationID EXCEPT ![s] = TRUE]
    /\ Goto(s, "setupDevices")
    /\ UNCHANGED <<tenant, gatewayIDs, subscribed, devices, spawned,
                   provWg, task, mutex, deviceAppKeys, createCalls>>
    /\ UNCHANGED <<globalVars, phases, runVars, downVars>>
    /\ Begin(s, "setupApplication")

\* init as it would be if it went on after a failed setupApplication
setupApplicationErrGoesOn(s) ==
    /\ Alive /\ pc[s] = "setupApplication"
    /\ Goto(s, "setupDevices")
    /\ UNCHANGED <<globalVars, phases, setupVars, runVars, downVars>>
    /\ Begin(s, "setupApplication")

\* setupApplication: GetApplication fails, init returns the error
setupApplicationErr(s) ==
    /\ Alive /\ pc[s] = "setupApplication"
    /\ Return(s, "init", "get application error")
    /\ UNCHANGED <<globalVars, phases, setupVars, runVars, downVars>>
    /\ Begin(s, "setupApplication")

\* setupApplicationIntegration: the subscription is acknowledged
setupApplicationIntegrationOk(s) ==
    /\ Alive /\ pc[s] = "setupApplicationIntegration"
    /\ subscribed' = [subscribed EXCEPT ![s] = TRUE]
    /\ Return(s, "init", "nil")
    /\ UNCHANGED <<tenant, gatewayIDs, applicationID, devices, spawned,
                   provWg, task, mutex, deviceAppKeys, createCalls>>
    /\ UNCHANGED <<globalVars, phases, runVars, downVars>>
    /\ Begin(s, "setupApplicationIntegration")

\* setupApplicationIntegration: the subscription fails
setupApplicationIntegrationErr(s) ==
    /\ Alive /\ pc[s] = "setupApplicationIntegration"
    /\ Return(s, "init", "subscribe application integration error")
    /\ UNCHANGED <<globalVars, phases, setupVars, runVars, downVars>>
    /\ Begin(s, "setupApplicationIntegration")

\* ----------------------------------------------------------- setupDevices

\* the appKey task i fills with rand.Read: fresh random bytes, told apart
\* from every other task's key
FreshKey(i) == <<"key", i>>

\* a map assignment that loses the entries written by others
MapSetLosing(m, k, v) == [x \in {k} |-> v]

\* m with key k set to v (a Go map assignment)
MapSet(m, k, v) ==
    [x \in DOMAIN m \cup {k} |-> IF x = k THEN v ELSE m[x]]

\* setupDevices reads devices.csv: log.Fatal on a returned error, a panic
\* when readDevicesFromCSV indexes past the end of a record
setupDevices(s) ==
    /\ Alive /\ pc[s] = "setupDevices"
    /\ LET r == readDevicesFromCSV(csvFile)
       IN  IF r.st = "ok"
           THEN /\ devices' = [devices EXCEPT ![s] = r.devices]
                /\ Goto(s, "spawn")
                /\ proc' = proc
           ELSE /\ Exit(IF r.st = "err" THEN "fatal" ELSE "panic", s)
                /\ UNCHANGED <<devices, pc, phaseErr>>
    /\ UNCHANGED <<tenant, gatewayIDs, applicationID, subscribed, spawned,
                   provWg, task, mutex, deviceAppKeys, createCalls>>
    /\ UNCHANGED <<csvFile, cfg, parentDone, wg, startI, startRet, released>>
    /\ UNCHANGED <<phases, runVars, downVars>>
    /\ Begin(s, "setupDevices")

\* one iteration of "for _, device := range devices": wg.Add(1) and the
\* goroutine is started with its copy of the device
spawn(s) ==
    /\ Alive /\ pc[s] = "spawn"
    /\ spawned[s] < Len(devices[s])
    /\ provWg' = [provWg EXCEPT ![s] = @ + 1]
    /\ spawned' = [spawned EXCEPT ![s] = @ + 1]
    /\ task' = [task EXCEPT ![s] = Append(@,
            [pc |-> "create", devEUI |-> ZeroEUI, appKey |-> <<>>,
             dev |-> devices[s][spawned[s] + 1]])]
    /\ UNCHANGED <<tenant, gatewayIDs, applicationID, subscribed, devices,
                   mutex, deviceAppKeys, createCalls>>
    /\ UNCHANGED <<globalVars, phaseVars, runVars, downVars>>
    /\ UNCHANGED setupLog

\* the loop is over: setupDevices reaches wg.Wait()
spawnDone(s) ==
    /\ Alive /\ pc[s] = "spawn"
    /\ spawned[s] = Len(devices[s])
    /\ Goto(s, "provWait")
    /\ UNCHANGED <<globalVars, phases, setupVars, runVars, downVars>>
    /\ UNCHANGED setupLog

\* setupDevices as it would be without wg.Wait()
provWaitNoBarrier(s) ==
    /\ Alive /\ pc[s] = "provWait"
    /\ Goto(s, "setupApplicationIntegration")
    /\ UNCHANGED <<globalVars, phases, setupVars, runVars, downVars>>
    /\ UNCHANGED setupLog

\* wg.Wait() returns when the counter is zero; setupDevices returns nil
provWait(s) ==
    /\ Alive /\ pc[s] = "provWait"
    /\ provWg[s] = 0
    /\ Goto(s, "setupApplicationIntegration")
    /\ UNCHANGED <<globalVars, phases, setupVars, runVars, downVars>>
    /\ UNCHANGED setupLog

Tasks(s) == DOMAIN task[s]

\* a task parses its identity, draws its key and CreateDevice succeeds
taskCreateDevice(s, i) ==
    /\ Alive /\ task[s][i].pc = "create"
    /\ task' = [task EXCEPT ![s][i] =
            [@ EXCEPT !.pc = "keys",
                      !.devEUI = UnmarshalEUI(task[s][i].dev.DevEui),
                      !.appKey = FreshKey(i)]]
    /\ createCalls' = [createCalls EXCEPT ![s] = @ \cup
            {[task |-> i, devEUI |-> UnmarshalEUI(task[s][i].dev.DevEui),
              ok |-> TRUE]}]
    /\ UNCHANGED <<tenant, gatewayIDs, applicationID, subscribed, devices,
                   spawned, provWg, mutex, deviceAppKeys>>
    /\ UNCHANGED <<globalVars, phaseVars, runVars, downVars>>
    /\ UNCHANGED setupLog

\* rand.Read fails: log.Fatal before any remote call
taskRandErr(s, i) ==
    /\ Alive /\ task[s][i].pc = "create"
    /\ Exit("fatal", s)
    /\ UNCHANGED <<csvFile, cfg, parentDone, wg, startI, startRet, released>>
    /\ UNCHANGED <<phaseVars, setupVars, runVars, downVars>>
    /\ UNCHANGED setupLog

\* CreateDevice fails: log.Fatal
taskCreateDeviceErr(s, i) ==
    /\ Alive /\ task[s][i].pc = "create"
    /\ createCalls' = [createCalls EXCEPT ![s] = @ \cup
            {[task |-> i, devEUI |-> UnmarshalEUI(task[s][i].dev.DevEui),
              ok |-> FALSE]}]
    /\ Exit("fatal", s)
    /\ UNCHANGED <<tenant, gatewayIDs, applicationID, subscribed, devices,
                   spawned, provWg, task, mutex, deviceAppKeys>>
    /\ UNCHANGED <<csvFile, cfg, parentDone, wg, startI, startRet, released>>
    /\ UNCHANGED <<phaseVars, runVars, downVars>>
    /\ UNCHANGED setupLog

\* CreateDeviceKeys succeeds
taskCreateKeys(s, i) ==
    /\ Alive /\ task[s][i].pc = "keys"
    /\ task' = [task EXCEPT ![s][i].pc = "lock"]
    /\ UNCHANGED <<tenant, gatewayIDs, applicationID, subscribed, devices,
                   spawned, provWg, mutex, deviceAppKeys, createCalls>>
    /\ UNCHANGED <<globalVars, phaseVars, runVars, downVars>>
    /\ UNCHANGED setupLog

\* CreateDeviceKeys fails: log.Fatal
taskCreateKeysErr(s, i) ==
    /\ Alive /\ task[s][i].pc = "keys"
    /\ Exit("fatal", s)
    /\ UNCHANGED <<csvFile, cfg, parentDone, wg, startI, startRet, released>>
    /\ UNCHANGED <<phaseVars, setupVars, runVars, downVars>>
    /\ UNCHANGED setupLog

\* the task as it would be if Lock() never blocked
taskLockNoGuard(s, i) ==
    /\ Alive /\ task[s][i].pc = "lock"
    /\ mutex' = [mutex EXCEPT ![s] = i]
    /\ task' = [task EXCEPT ![s][i].pc = "insert"]
    /\ UNCHANGED <<tenant, gatewayIDs, applicationID, subscribed, devices,
                   spawned, provWg, deviceAppKeys, createCalls>>
    /\ UNCHANGED <<globalVars, phaseVars, runVars, downVars>>
    /\ UNCHANGED setupLog

\* s.deviceAppKeysMutex.Lock()
taskLock(s, i) ==
    /\ Alive /\ task[s][i].pc = "lock"
    /\ mutex[s] = 0
    /\ mutex' = [mutex EXCEPT ![s] = i]
    /\ task' = [task EXCEPT ![s][i].pc = "insert"]
    /\ UNCHANGED <<tenant, gatewayIDs, applicationID, subscribed, devices,
                   spawned, provWg, deviceAppKeys, createCalls>>
    /\ UNCHANGED <<globalVars, phaseVars, runVars, downVars>>
    /\ UNCHANGED setupLog

\* s.deviceAppKeys[devEUI] = appKey
taskInsert(s, i) ==
    /\ Alive /\ task[s][i].pc = "insert"
    /\ deviceAppKeys' = [deviceAppKeys EXCEPT ![s] =
            MapSet(@, task[s][i].devEUI, task[s][i].appKey)]
    /\ task' = [task EXCEPT ![s][i].pc = "unlock"]
    /\ UNCHANGED <<tenant, gatewayIDs, applicationID, subscribed, devices,
                   spawned, provWg, mutex, createCalls>>
    /\ UNCHANGED <<globalVars, phaseVars, runVars, downVars>>
    /\ UNCHANGED setupLog

\* s.deviceAppKeysMutex.Unlock(); wg.Done(): the task is over
taskUnlockDone(s, i) ==
    /\ Alive /\ task[s][i].pc = "unlock"
    /\ mutex' = [mutex EXCEPT ![s] = 0]
    /\ provWg' = [provWg EXCEPT ![s] = @ - 1]
    /\ task' = [task EXCEPT ![s][i].pc = "done"]
    /\ UNCHANGED <<tenant, gatewayIDs, applicationID, subscribed, devices,
                   spawned, deviceAppKeys, createCalls>>
    /\ UNCHANGED <<globalVars, phaseVars, runVars, downVars>>
    /\ UNCHANGED setupLog

\* ---------------------------------------------------------- runSimulation

\* the run-phase context is done: cancel() was called, its deadline passed,
\* or the context it derives from was cancelled
CtxDone(s) ==
    ctx[s].made /\ (ctx[s].cancelled \/ ctx[s].timedOut \/ parentDone)

\* a context that gets a deadline whatever the duration
HasDeadlineAlways(duration) == TRUE

\* "if s.duration != 0": the context is wrapped in context.WithTimeout
HasDeadline(duration) == duration # 0

\* the draw as it would be without the "gatewayMinCount +"
DevNumGatewaysNoMin(min, max) == {r : r \in 0 .. (max - min)}

\* the values of gatewayMinCount + mrand.Intn(gatewayMaxCount-gatewayMinCount+1)
DevNumGatewaysChoices(min, max) == {min + r : r \in 0 .. (max - min)}

RECURSIVE Ascending(_)
\* the keys of a map as a list: "for k := range devGateways" appends one
\* element per key; Go leaves the order open and nothing reads it, so the
\* list is kept in ascending order
Ascending(keys) ==
    IF keys = {} THEN <<>>
    ELSE LET m == CHOOSE x \in keys : \A y \in keys : x <= y
         IN  <<m>> \o Ascending(keys \ {m})

\* start() calls s.runSimulation()
runSimulation(s) ==
    /\ Alive /\ pc[s] = "runSimulation"
    /\ phases' = [phases EXCEPT ![s] = Append(@, "runSimulation")]
    /\ Goto(s, "newGateway")
    /\ UNCHANGED <<globalVars, setupVars, runVars, downVars>>
    /\ UNCHANGED setupLog

\* one iteration of "for _, gatewayID := range s.gatewayIDs": NewGateway
\* succeeds and the gateway is appended
newGateway(s) ==
    /\ Alive /\ pc[s] = "newGateway"
    /\ gateways[s] < Len(gatewayIDs[s])
    /\ gateways' = [gateways EXCEPT ![s] = @ + 1]
    /\ UNCHANGED <<ctx, todo, cur, devNumGateways, devGateways, units, runWg,
                   listener>>
    /\ UNCHANGED <<globalVars, phaseVars, setupVars, downVars>>
    /\ UNCHANGED setupLog

\* NewGateway fails: runSimulation returns before its context exists
newGatewayErr(s) ==
    /\ Alive /\ pc[s] = "newGateway"
    /\ gateways[s] < Len(gatewayIDs[s])
    /\ Return(s, "runSimulation", "new gateway error")
    /\ UNCHANGED <<globalVars, phases, setupVars, runVars, downVars>>
    /\ UNCHANGED setupLog

\* the gateway loop is over: context.WithCancel(s.ctx), wrapped in
\* context.WithTimeout when duration != 0; the range over deviceAppKeys starts
withContext(s) ==
    /\ Alive /\ pc[s] = "newGateway"
    /\ gateways[s] = Len(gatewayIDs[s])
    /\ ctx' = [ctx EXCEPT ![s] = [made |-> TRUE,
                                  deadline |-> HasDeadline(cfg[s].duration),
                                  cancelled |-> FALSE,
                                  timedOut |-> FALSE]]
    /\ todo' = [todo EXCEPT ![s] = DOMAIN deviceAppKeys[s]]
    /\ Goto(s, "devLoop")
    /\ UNCHANGED <<gateways, cur, devNumGateways, devGateways, units, runWg,
                   listener>>
    /\ UNCHANGED <<globalVars, phases, setupVars, downVars>>
    /\ UNCHANGED setupLog

\* one iteration of "for devEUI, appKey := range s.deviceAppKeys" begins:
\* any key not yet visited, devGateways empty, devNumGateways drawn
devNext(s) ==
    /\ Alive /\ pc[s] = "devLoop"
    /\ \E e \in todo[s] :
        /\ cur' = [cur EXCEPT ![s] = e]
        /\ todo' = [todo EXCEPT ![s] = @ \ {e}]
    /\ \E k \in DevNumGatewaysChoices(cfg[s].gatewayMinCount,
                                       cfg[s].gatewayMaxCount) :
        devNumGateways' = [devNumGateways EXCEPT ![s] = k]
    /\ devGateways' = [devGateways EXCEPT ![s] = {}]
    /\ Goto(s, "sample")
    /\ UNCHANGED <<gateways, ctx, units, runWg, listener>>
    /\ UNCHANGED <<globalVars, phases, setupVars, downVars>>
    /\ UNCHANGED setupLog

\* one iteration of "for len(devGateways) < devNumGateways":
\* n := mrand.Intn(len(gateways)), which panics when there is no gateway
sampleDraw(s) ==
    /\ Alive /\ pc[s] = "sample"
    /\ Cardinality(devGateways[s]) < devNumGateways[s]
    /\ IF gateways[s] = 0
       THEN /\ Exit("panic", s)
            /\ devGateways' = devGateways
       ELSE /\ \E n \in 0 .. (gateways[s] - 1) :
                devGateways' = [devGateways EXCEPT ![s] = @ \cup {n}]
            /\ proc' = proc
    /\ UNCHANGED <<gateways, ctx, todo, cur, devNumGateways, units, runWg,
                   listener>>
    /\ UNCHANGED <<csvFile, cfg, parentDone, wg, startI, startRet, released>>
    /\ UNCHANGED <<phaseVars, setupVars, downVars>>
    /\ UNCHANGED setupLog

\* the device NewDevice returns: it holds one slot of the run WaitGroup and
\* runs until it sees the context done
Unit(gws, delay) == [gws |-> gws, otaaDelay |-> delay, st |-> "running"]

\* the sampling loop is over, gws is built from the map and NewDevice
\* succeeds: the device is appended and the next iteration follows
newDevice(s) ==
    /\ Alive /\ pc[s] = "sample"
    /\ Cardinality(devGateways[s]) >= devNumGateways[s]
    /\ cfg[s].activationTime > 0
    /\ \E d \in 0 .. (cfg[s].activationTime - 1) :
        units' = [units EXCEPT ![s] =
            MapSet(@, cur[s], Unit(Ascending(devGateways[s]), d))]
    /\ runWg' = [runWg EXCEPT ![s] = @ + 1]
    /\ Goto(s, "devLoop")
    /\ UNCHANGED <<gateways, ctx, todo, cur, devNumGateways, devGateways,
                   listener>>
    /\ UNCHANGED <<globalVars, phases, setupVars, downVars>>
    /\ UNCHANGED setupLog

\* mrand.Int63n(int64(s.activationTime)) panics for activationTime <= 0
newDevicePanic(s) ==
    /\ Alive /\ pc[s] = "sample"
    /\ Cardinality(devGateways[s]) >= devNumGateways[s]
    /\ cfg[s].activationTime <= 0
    /\ Exit("panic", s)
    /\ UNCHANGED <<csvFile, cfg, parentDone, wg, startI, startRet, released>>
    /\ UNCHANGED <<phaseVars, setupVars, runVars, downVars>>
    /\ UNCHANGED setupLog

\* NewDevice fails: runSimulation returns the error at once; the deferred
\* cancel() runs
newDeviceErr(s) ==
    /\ Alive /\ pc[s] = "sample"
    /\ Cardinality(devGateways[s]) >= devNumGateways[s]
    /\ cfg[s].activationTime > 0
    /\ ctx' = [ctx EXCEPT ![s].cancelled = TRUE]
    /\ Return(s, "runSimulation", "new device error")
    /\ UNCHANGED <<gateways, todo, cur, devNumGateways, devGateways, units,
                   runWg, listener>>
    /\ UNCHANGED <<globalVars, phases, setupVars, downVars>>
    /\ UNCHANGED setupLog

\* the device loop is over: the signal goroutine is started and
\* runSimulation reaches wg.Wait()
devLoopDone(s) ==
    /\ Alive /\ pc[s] = "devLoop"
    /\ todo[s] = {}
    /\ listener' = [listener EXCEPT ![s] = "notify"]
    /\ Goto(s, "runWait")
    /\ UNCHANGED <<gateways, ctx, todo, cur, devNumGateways, devGateways,
                   units, runWg>>
    /\ UNCHANGED <<globalVars, phases, setupVars, downVars>>
    /\ UNCHANGED setupLog

\* wg.Wait() returns when the counter is zero; runSimulation returns nil
\* and the deferred cancel() runs
runWait(s) ==
    /\ Alive /\ pc[s] = "runWait"
    /\ runWg[s] = 0
    /\ ctx' = [ctx EXCEPT ![s].cancelled = TRUE]
    /\ Return(s, "runSimulation", "nil")
    /\ UNCHANGED <<gateways, todo, cur, devNumGateways, devGateways, units,
                   runWg, listener>>
    /\ UNCHANGED <<globalVars, phases, setupVars, downVars>>
    /\ UNCHANGED setupLog

\* the goroutine: signal.Notify(sigChan, ...) and it blocks in select
listenerNotify(s) ==
    /\ Alive /\ listener[s] = "notify"
    /\ listener' = [listener EXCEPT ![s] = "select"]
    /\ UNCHANGED <<gateways, ctx, todo, cur, devNumGateways, devGateways,
                   units, runWg>>
    /\ UNCHANGED <<globalVars, phaseVars, setupVars, downVars>>
    /\ UNCHANGED setupLog

\* a signal as it would act were it left to end the process
SignalEndsProcess ==
    /\ Alive
    /\ \E s \in Sims : listener[s] = "select"
    /\ listener' = [s \in Sims |->
            IF listener[s] = "select" THEN "signalled" ELSE listener[s]]
    /\ proc' = [how |-> "signal", by |-> 0]
    /\ UNCHANGED <<gateways, ctx, todo, cur, devNumGateways, devGateways,
                   units, runWg>>
    /\ UNCHANGED <<csvFile, cfg, parentDone, wg, startI, startRet, released>>
    /\ UNCHANGED <<phaseVars, setupVars, downVars>>
    /\ UNCHANGED setupLog

\* an interrupt or terminate signal: every goroutine blocked in its select
\* receives it on its channel; where no goroutine of a simulation is in
\* its select that simulation is left as it is
Signal ==
    /\ Alive
    /\ \E s \in Sims : listener[s] = "select"
    /\ listener' = [s \in Sims |->
            IF listener[s] = "select" THEN "signalled" ELSE listener[s]]
    /\ UNCHANGED <<gateways, ctx, todo, cur, devNumGateways, devGateways,
                   units, runWg>>
    /\ UNCHANGED <<globalVars, phaseVars, setupVars, downVars>>
    /\ UNCHANGED setupLog

\* "case sig := <-sigChan": cancel()
listenerCancel(s) ==
    /\ Alive /\ listener[s] = "signalled"
    /\ ctx' = [ctx EXCEPT ![s].cancelled = TRUE]
    /\ listener' = [listener EXCEPT ![s] = "exit"]
    /\ UNCHANGED <<gateways, todo, cur, devNumGateways, devGateways, units,
                   runWg>>
    /\ UNCHANGED <<globalVars, phaseVars, setupVars, downVars>>
    /\ UNCHANGED setupLog

\* "case <-ctx.Done()": the goroutine ends
listenerCtxDone(s) ==
    /\ Alive /\ listener[s] = "select"
    /\ CtxDone(s)
    /\ listener' = [listener EXCEPT ![s] = "exit"]
    /\ UNCHANGED <<gateways, ctx, todo, cur, devNumGateways, devGateways,
                   units, runWg>>
    /\ UNCHANGED <<globalVars, phaseVars, setupVars, downVars>>
    /\ UNCHANGED setupLog

\* the deadline of context.WithTimeout(ctx, s.duration) passes
Timeout(s) ==
    /\ Alive /\ ctx[s].made /\ ctx[s].deadline
    /\ ~CtxDone(s)
    /\ ctx' = [ctx EXCEPT ![s].timedOut = TRUE]
    /\ UNCHANGED <<gateways, todo, cur, devNumGateways, devGateways, units,
                   runWg, listener>>
    /\ UNCHANGED <<globalVars, phaseVars, setupVars, downVars>>
    /\ UNCHANGED setupLog

\* a device sees its context done, stops and releases its slot
unitStop(s, e) ==
    /\ Alive /\ units[s][e].st = "running"
    /\ CtxDone(s)
    /\ units' = [units EXCEPT ![s][e].st = "stopped"]
    /\ runWg' = [runWg EXCEPT ![s] = @ - 1]
    /\ UNCHANGED <<gateways, ctx, todo, cur, devNumGateways, devGateways,
                   listener>>
    /\ UNCHANGED <<globalVars, phaseVars, setupVars, downVars>>
    /\ UNCHANGED setupLog

\* --------------------------------------------------------------- tearDown

\* start() calls s.tearDown()
tearDown(s) ==
    /\ Alive /\ pc[s] = "tearDown"
    /\ phases' = [phases EXCEPT ![s] = Append(@, "tearDown")]
    /\ Goto(s, "tearDownApplicationIntegration")
    /\ UNCHANGED <<globalVars, setupVars, runVars, downVars>>
    /\ UNCHANGED setupLog

\* a tear-down step is entered
Enter(s, step) == tdLog' = [tdLog EXCEPT ![s] = Append(@, step)]

\* tearDownApplicationIntegration: Unsubscribe is acknowledged
tearDownApplicationIntegrationOk(s) ==
    /\ Alive /\ pc[s] = "tearDownApplicationIntegration"
    /\ Enter(s, "unsubscribe")
    /\ subscribed' = [subscribed EXCEPT ![s] = FALSE]
    /\ Goto(s, "tearDownDevices")
    /\ UNCHANGED <<tenant, gatewayIDs, applicationID, devices, spawned,
                   provWg, task, mutex, deviceAppKeys, createCalls>>
    /\ UNCHANGED <<globalVars, phases, runVars, deleteCalls, delTodo>>
    /\ UNCHANGED setupLog

\* tearDownApplicationIntegration: Unsubscribe fails, tearDown returns
tearDownApplicationIntegrationErr(s) ==
    /\ Alive /\ pc[s] = "tearDownApplicationIntegration"
    /\ Enter(s, "unsubscribe")
    /\ Return(s, "tearDown", "unsubscribe application integration error")
    /\ UNCHANGED <<globalVars, phases, setupVars, runVars, deleteCalls,
                   delTodo>>
    /\ UNCHANGED setupLog

\* tearDownDevices is entered: the range over s.deviceAppKeys starts
tearDownDevices(s) ==
    /\ Alive /\ pc[s] = "tearDownDevices"
    /\ Enter(s, "deleteDevices")
    /\ delTodo' = [delTodo EXCEPT ![s] = DOMAIN deviceAppKeys[s]]
    /\ Goto(s, "deleteDevice")
    /\ UNCHANGED <<globalVars, phases, setupVars, runVars, deleteCalls>>
    /\ UNCHANGED setupLog

\* one iteration: DeleteDevice of a key not yet visited succeeds
deleteDevice(s) ==
    /\ Alive /\ pc[s] = "deleteDevice"
    /\ \E e \in delTodo[s] :
        /\ deleteCalls' = [deleteCalls EXCEPT ![s] = @ \cup {e}]
        /\ delTodo' = [delTodo EXCEPT ![s] = @ \ {e}]
    /\ UNCHANGED <<globalVars, phaseVars, setupVars, runVars, tdLog>>
    /\ UNCHANGED setupLog

\* one iteration: DeleteDevice fails, tearDown returns the error
deleteDeviceErr(s) ==
    /\ Alive /\ pc[s] = "deleteDevice"
    /\ \E e \in delTodo[s] :
        /\ deleteCalls' = [deleteCalls EXCEPT ![s] = @ \cup {e}]
        /\ delTodo' = [delTodo EXCEPT ![s] = @ \ {e}]
    /\ Return(s, "tearDown", "delete device error")
    /\ UNCHANGED <<globalVars, phases, setupVars, runVars, tdLog>>
    /\ UNCHANGED setupLog

\* the range is over: tearDownDevices returns nil
deleteDone(s) ==
    /\ Alive /\ pc[s] = "deleteDevice"
    /\ delTodo[s] = {}
    /\ Goto(s, "tearDownApplication")
    /\ UNCHANGED <<globalVars, phases, setupVars, runVars, downVars>>
    /\ UNCHANGED setupLog

\* tearDownApplication: nothing is deleted, nil is returned
tearDownApplication(s) ==
    /\ Alive /\ pc[s] = "tearDownApplication"
    /\ Enter(s, "deleteApplication")
    /\ Goto(s, "tearDownDeviceProfile")
    /\ UNCHANGED <<globalVars, phases, setupVars, runVars, deleteCalls,
                   delTodo>>
    /\ UNCHANGED setupLog

\* tearDownDeviceProfile: nothing is deleted, nil is returned
tearDownDeviceProfile(s) ==
    /\ Alive /\ pc[s] = "tearDownDeviceProfile"
    /\ Enter(s, "deleteDeviceProfile")
    /\ Goto(s, "tearDownGateways")
    /\ UNCHANGED <<globalVars, phases, setupVars, runVars, deleteCalls,
                   delTodo>>
    /\ UNCHANGED setupLog

\* tearDownGateways: nothing is deleted; tearDown returns nil
tearDownGateways(s) ==
    /\ Alive /\ pc[s] = "tearDownGateways"
    /\ Enter(s, "deleteGateways")
    /\ Return(s, "tearDown", "nil")
    /\ UNCHANGED <<globalVars, phases, setupVars, runVars, deleteCalls,
                   delTodo>>
    /\ UNCHANGED setupLog

\* ---------------------------------------------------------- specification

\* Start is called with any configuration of up to MaxSims simulations and
\* any device list
Init == \E r \in Runs : InitWith(r[1], r[2])


\* a step of the goroutine running simulation.start for s
OrchStep(s) ==
    \/ init(s)
    \/ setupTenantOk(s)
    \/ setupTenantErr(s)
    \/ setupGateways(s)
    \/ setupDeviceProfile(s)
    \/ setupApplicationOk(s)
    \/ setupApplicationErr(s)
    \/ setupDevices(s)
    \/ spawn(s)
    \/ spawnDone(s)
    \/ provWait(s)
    \/ setupApplicationIntegrationOk(s)
    \/ setupApplicationIntegrationErr(s)
    \/ runSimulation(s)
    \/ newGateway(s)
    \/ newGatewayErr(s)
    \/ withContext(s)
    \/ devNext(s)
    \/ sampleDraw(s)
    \/ newDevice(s)
    \/ newDevicePanic(s)
    \/ newDeviceErr(s)
    \/ devLoopDone(s)
    \/ runWait(s)
    \/ tearDown(s)
    \/ tearDownApplicationIntegrationOk(s)
    \/ tearDownApplicationIntegrationErr(s)
    \/ tearDownDevices(s)
    \/ deleteDevice(s)
    \/ deleteDeviceErr(s)
    \/ deleteDone(s)
    \/ tearDownApplication(s)
    \/ tearDownDeviceProfile(s)
    \/ tearDownGateways(s)
    \/ wgDone(s)

\* a step of the i-th provisioning goroutine of s
TaskStep(s, i) ==
    \/ taskCreateDevice(s, i)
    \/ taskRandErr(s, i)
    \/ taskCreateDeviceErr(s, i)
    \/ taskCreateKeys(s, i)
    \/ taskCreateKeysErr(s, i)
    \/ taskLock(s, i)
    \/ taskInsert(s, i)
    \/ taskUnlockDone(s, i)

\* a step of the signal goroutine of s
ListenerStep(s) ==
    \/ listenerNotify(s)
    \/ listenerCancel(s)
    \/ listenerCtxDone(s)

Next ==
    \/ StartLaunch
    \/ StartDecodeError
    \/ StartReturn
    \/ SupervisorWait
    \/ ParentCancel
    \/ Signal
    \/ \E s \in Sims : OrchStep(s)
    \/ \E s \in Sims : ListenerStep(s)
    \/ \E s \in Sims : Timeout(s)
    \/ \E s \in Sims : \E i \in Tasks(s) : TaskStep(s, i)
    \/ \E s \in Sims : \E e \in DOMAIN units[s] : unitStop(s, e)

Spec == Init /\ [][Next]_vars

\* the identities a device can have
Identities == {UnmarshalEUI(t) : t \in EuiTexts}

\* the Go scheduler runs every goroutine that can take a step: Start, each
\* simulation.start, each provisioning goroutine, each signal goroutine and
\* each device; the timer of a deadline fires
Fairness ==
    /\ WF_vars(StartLaunch \/ StartDecodeError \/ StartReturn)
    /\ \A s \in Sims : WF_vars(OrchStep(s))
    /\ \A s \in Sims : WF_vars(ListenerStep(s))
    /\ \A s \in Sims : WF_vars(Timeout(s))
    /\ \A s \in Sims : \A i \in 1 .. MaxRows :
            WF_vars(i \in Tasks(s) /\ TaskStep(s, i))
    /\ \A s \in Sims : \A e \in Identities :
            WF_vars(e \in DOMAIN units[s] /\ unitStop(s, e))

\* one simulation with one gateway, any payload, duration and activation
\* time of at most one tick, and the plain device list
FairRuns ==
    {<<(<<c>>), PlainFile>> :
        c \in {x \in Configs : /\ x.gatewayMinCount = 1
                               /\ x.gatewayMaxCount = 1
                               /\ x.activationTime <= 1}}

InitFair == \E r \in FairRuns : InitWith(r[1], r[2])

FairSpec == InitFair /\ [][Next]_vars /\ Fairness

\* a device list of one row
OneRowFile == FileOf(NumFields, <<Record(NumFields, <<"0", "1">>)>>)

\* one simulation with any gateway range, payload and duration, an
\* activation time of at most one tick, and one device
DrawRuns ==
    {<<(<<c>>), OneRowFile>> : c \in {x \in Configs : x.activationTime <= 1}}

InitDraw == \E r \in DrawRuns : InitWith(r[1], r[2])

\* the same scheduling; for the sampling loop it means that a draw which
\* adds an index to devGateways comes up eventually (a draw of an index
\* already held changes nothing)
DrawSpec == InitDraw /\ [][Next]_vars /\ Fairness

\* ------------------------------------------------------------------ claims

PhaseOrder == <<"init", "runSimulation", "tearDown">>

IsPrefix(a, b) ==
    /\ Len(a) <= Len(b)
    /\ \A i \in 1 .. Len(a) : a[i] = b[i]

\* where start() is when every phase it has entered has returned
Between(s) ==
    CASE Len(phaseErr[s]) = 0 -> {"new", "init"}
      [] Len(phaseErr[s]) = 1 -> {"runSimulation"}
      [] Len(phaseErr[s]) = 2 -> {"tearDown"}
      [] OTHER -> {"wgDone", "Done"}

\* C1: start() enters init, runSimulation and tearDown in that order, each
\* at most once; when a phase has returned, with an error or without, start()
\* is at the call of the next phase; at the end every phase has run once.
C1_PhasesInOrder ==
    \A s \in Sims :
        /\ IsPrefix(phases[s], PhaseOrder)
        /\ Len(phaseErr[s]) <= Len(phases[s])
        /\ Len(phases[s]) <= Len(phaseErr[s]) + 1
        /\ Len(phaseErr[s]) = Len(phases[s]) => pc[s] \in Between(s)
        /\ pc[s] \in {"wgDone", "Done"} =>
                phases[s] = PhaseOrder /\ Len(phaseErr[s]) = 3

\* a simulation is Done although each of its three phases returned an error
C1_Witness ==
    \E s \in Sims :
        /\ pc[s] = "Done"
        /\ \A i \in 1 .. 3 : phaseErr[s][i] # "nil"

Finished(s) == pc[s] = "Done"

\* the simulations start() is running for
Unfinished == {s \in Sims : pc[s] \notin {"new", "Done"}}

\* C2: the counter counts the launched simulations that are not Done (and
\* the Add of an iteration of Start that returned an error): Done is called
\* once per simulation, after its three phases have returned; the caller's
\* Wait returns only when every configured simulation is Done, and it can
\* return then.
C2_CounterTracksDone ==
    /\ wg = Cardinality(Unfinished) + (IF startRet = "err" THEN 1 ELSE 0)
    /\ \A s \in Sims : Finished(s) => Len(phaseErr[s]) = 3
    /\ released => \A s \in Configured : Finished(s)
    /\ (startRet = "nil" /\ \A s \in Configured : Finished(s)) => wg = 0

\* the caller has been released after two simulations ran to Done
C2_Witness ==
    /\ released
    /\ Cardinality(Configured) >= 2
    /\ \A s \in Configured : Finished(s) /\ Len(phaseErr[s]) = 3

TearDownOrder ==
    <<"unsubscribe", "deleteDevices", "deleteApplication",
      "deleteDeviceProfile", "deleteGateways">>

TenantFailed(s) ==
    Len(phaseErr[s]) >= 1 /\ phaseErr[s][1] = "get tenant error"

\* C3: when setupTenant failed, tearDown has, by the time it returns, entered
\* every reverse step, in the order unsubscribe, delete devices, delete
\* application, delete device profile, delete gateways.
C3_TearDownEntersEveryStep ==
    \A s \in Sims :
        (TenantFailed(s) /\ Len(phaseErr[s]) = 3) => tdLog[s] = TearDownOrder

\* C4: when tearDown is entered, no device created by runSimulation holds a
\* slot of the run WaitGroup.
C4_TearDownAfterRunBarrier ==
    \A s \in Sims : Len(phases[s]) = 3 => runWg[s] = 0

InRun(s) == Len(phases[s]) = 2 /\ Len(phaseErr[s]) = 1

\* C5: once the run-phase context of a simulation in runSimulation is done,
\* tearDown is eventually entered.
C5_CancelLeadsToTearDown ==
    \A s \in Sims : (InRun(s) /\ CtxDone(s)) ~> (Len(phases[s]) = 3)

\* the same, unless the process ends first
C5_UnlessProcessEnds ==
    \A s \in Sims : (InRun(s) /\ CtxDone(s)) ~> (Len(phases[s]) = 3 \/ ~Alive)

\* C6: the process never ends, through the step of one simulation, while
\* another simulation is launched and not Done.
C6_Isolation ==
    \A s \in Sims : (~Alive /\ proc.by # s) => pc[s] \in {"new", "Done"}

\* setupDevices has returned, or was never called because init failed
\* before it
SetupDevicesOver(s) ==
    pc[s] = "setupApplicationIntegration" \/ Len(phaseErr[s]) >= 1

AllTasksOver(s) ==
    /\ spawned[s] = Len(devices[s])
    /\ Tasks(s) = 1 .. Len(devices[s])
    /\ \A i \in Tasks(s) : task[s][i].pc = "done"
    /\ provWg[s] = 0
    /\ mutex[s] = 0

\* C7: once setupDevices has returned, and so whenever runSimulation reads
\* deviceAppKeys or a device exists, a task has been started for every row
\* and every task has ended.
C7_ProvisioningBarrier ==
    \A s \in Sims :
        (SetupDevicesOver(s) \/ DOMAIN units[s] # {} \/ todo[s] # {}) =>
            AllTasksOver(s)

\* a device has been created after two provisioning tasks ran
C7_Witness ==
    \E s \in Sims :
        /\ DOMAIN units[s] # {}
        /\ Cardinality(Tasks(s)) >= 2
        /\ AllTasksOver(s)

NoDuplicates(q) == \A i, j \in DOMAIN q : i # j => q[i] # q[j]

\* C8: every device created has between gatewayMinCount and
\* gatewayMaxCount gateways, each an index of the gateway pool, none twice;
\* the pool has gatewayMaxCount gateways.
C8_TopologyBounds ==
    \A s \in Sims : \A e \in DOMAIN units[s] :
        LET g == units[s][e].gws
        IN  /\ cfg[s].gatewayMinCount <= Len(g)
            /\ Len(g) <= cfg[s].gatewayMaxCount
            /\ \A i \in DOMAIN g : g[i] \in 0 .. (gateways[s] - 1)
            /\ NoDuplicates(g)
            /\ gateways[s] = cfg[s].gatewayMaxCount

\* two devices of one run have different numbers of gateways, one of them
\* more than one
C8_Witness ==
    \E s \in Sims : \E e1, e2 \in DOMAIN units[s] :
        /\ Len(units[s][e1].gws) >= 2
        /\ Len(units[s][e2].gws) < Len(units[s][e1].gws)

\* the data rows of devices.csv
DataRows == IF csvFile.exists THEN Tail(csvFile.records) ELSE <<>>

\* every data row has NumFields fields and an identity UnmarshalText accepts
ValidRows ==
    /\ csvFile.exists
    /\ \A i \in DOMAIN csvFile.records : Len(csvFile.records[i]) = NumFields
    /\ \A i \in DOMAIN DataRows : WellFormedEUI(DataRows[i][3])

\* setupDevices has returned nil
Provisioned(s) ==
    \/ pc[s] = "setupApplicationIntegration"
    \/ /\ Len(phaseErr[s]) >= 1
       /\ phaseErr[s][1] \in {"nil", "subscribe application integration error"}

RowIdentities == {UnmarshalEUI(DataRows[i][3]) : i \in DOMAIN DataRows}

\* C9 as stated: with R valid data rows, deviceAppKeys has R entries once
\* setupDevices has returned.
C9_OneEntryPerRow ==
    \A s \in Sims :
        (Provisioned(s) /\ ValidRows) =>
            Cardinality(DOMAIN deviceAppKeys[s]) = Len(DataRows)

\* C9 amended: with R valid data rows, once setupDevices has returned the
\* keys of deviceAppKeys are the parsed identities of the rows, one entry
\* per distinct identity: R entries when the identities are pairwise
\* distinct, and each entry holds the key of a task of a row with that
\* identity.
C9_OneEntryPerIdentity ==
    \A s \in Sims :
        (Provisioned(s) /\ ValidRows) =>
            /\ DOMAIN deviceAppKeys[s] = RowIdentities
            /\ Cardinality(RowIdentities) = Len(DataRows) =>
                    Cardinality(DOMAIN deviceAppKeys[s]) = Len(DataRows)
            /\ \A e \in DOMAIN deviceAppKeys[s] : \E i \in DOMAIN DataRows :
                    /\ UnmarshalEUI(DataRows[i][3]) = e
                    /\ deviceAppKeys[s][e] = FreshKey(i)

\* two rows with different identities are provisioned: two entries
C9_Witness ==
    \E s \in Sims :
        /\ Provisioned(s) /\ ValidRows
        /\ Len(DataRows) = 2
        /\ Cardinality(DOMAIN deviceAppKeys[s]) = 2

ShortRow == \E i \in DOMAIN DataRows : Len(DataRows[i]) < NumFields

\* C10: when a data row has fewer than NumFields fields, no simulation
\* indexes past the end of a record, issues CreateDevice or gets a device
\* list out of readDevicesFromCSV.
C10_ShortRowIsParseFailure ==
    ShortRow =>
        /\ proc.how # "panic"
        /\ \A s \in Sims :
            /\ createCalls[s] = {}
            /\ devices[s] = <<>>
            /\ pc[s] \notin {"spawn", "provWait"}

\* C11: when a simulation is Done, DeleteDevice has been issued for the
\* identity of every device whose CreateDevice succeeded in its setup.
C11_CreatedDevicesDeleted ==
    \A s \in Sims :
        Finished(s) =>
            \A c \in createCalls[s] : c.ok => c.devEUI \in deleteCalls[s]

SetupOrder ==
    <<"setupTenant", "setupGateways", "setupDeviceProfile",
      "setupApplication", "setupDevices", "setupApplicationIntegration">>

\* the first n sub-steps of init
FirstSteps(n) == SubSeq(SetupOrder, 1, n)

\* init is under way
InSetup(s) == Len(phases[s]) = 1 /\ Len(phaseErr[s]) = 0

\* the number of sub-steps entered when start() of s is at pc[s] within init
EnteredAt(step) ==
    CASE step = "setupTenant" -> 0
      [] step = "setupGateways" -> 1
      [] step = "setupDeviceProfile" -> 2
      [] step = "setupApplication" -> 3
      [] step = "setupDevices" -> 4
      [] step \in {"spawn", "provWait", "setupApplicationIntegration"} -> 5

\* the number of sub-steps entered when init has returned err
EnteredFor(err) ==
    CASE err = "get tenant error" -> 1
      [] err = "get application error" -> 4
      [] OTHER -> 6

\* the process ended in the init of s: a log.Fatal or a panic of setupDevices
\* or of one of its tasks
FatalInSetup(s) == InSetup(s) /\ ~Alive /\ proc.by = s

\* C12: the sub-steps of init are entered in the order tenant, gateways,
\* device profile, application, devices, integration; a sub-step is entered
\* only when every earlier one has returned nil (its result is in place);
\* when a sub-step returns an error init returns that error and no later
\* sub-step is entered, nor when setupDevices ends the process; none is
\* entered after init.
C12_SetupOrder ==
    \A s \in Sims :
        /\ IsPrefix(setupLog[s], SetupOrder)
        /\ (InSetup(s) /\ ~FatalInSetup(s)) =>
                setupLog[s] = FirstSteps(EnteredAt(pc[s]))
        /\ FatalInSetup(s) => setupLog[s] = FirstSteps(5)
        /\ Len(setupLog[s]) >= 2 => tenant[s]
        /\ Len(setupLog[s]) >= 3 =>
                Len(gatewayIDs[s]) = cfg[s].gatewayMaxCount
        /\ Len(setupLog[s]) >= 5 => applicationID[s]
        /\ Len(setupLog[s]) >= 6 => AllTasksOver(s)
        /\ Len(phaseErr[s]) >= 1 =>
                /\ setupLog[s] = FirstSteps(EnteredFor(phaseErr[s][1]))
                /\ phaseErr[s][1] = "get tenant error" => ~tenant[s]
                /\ phaseErr[s][1] = "get application error" =>
                        ~applicationID[s] /\ devices[s] = <<>>
                /\ phaseErr[s][1] # "nil" => ~subscribed[s]

\* init returned the error of setupApplication after four sub-steps and the
\* simulation went on to Done
C12_Witness ==
    \E s \in Sims :
        /\ Finished(s)
        /\ phaseErr[s][1] = "get application error"
        /\ setupLog[s] = FirstSteps(4)

\* what the fixture operations of s and start() of s have built
FixtureState(s) ==
    <<pc[s], phases[s], phaseErr[s], tenant[s], gatewayIDs[s],
      applicationID[s], subscribed[s], devices[s], spawned[s], provWg[s],
      task[s], mutex[s], deviceAppKeys[s], createCalls[s], deleteCalls[s],
      setupLog[s], tdLog[s], delTodo[s]>>

InTearDown(s) == Len(phases[s]) = 3 /\ Len(phaseErr[s]) = 2

\* a signal is received by some signal goroutine
SignalDelivered ==
    \E s \in Sims : listener[s] = "select" /\ listener'[s] = "signalled"

\* the signal goroutine of s acts on the signal it received
SignalCancel(s) == listener[s] = "signalled" /\ listener'[s] = "exit"

Inside(s) == {i \in Tasks(s) : task[s][i].pc \in {"insert", "unlock"}}

\* start() of s is in a loop that ranges over deviceAppKeys
ReadsKeys(s) == pc[s] \in {"devLoop", "sample", "deleteDevice"}

\* C14: at most one task is between Lock() and Unlock(), and it is the one
\* the mutex records; a task takes the lock only after its CreateDevice and
\* CreateDeviceKeys calls have returned; the map has no more entries than
\* tasks that have made their insertion, and holds the identity of each of
\* them; while runSimulation or tearDownDevices ranges over the map every
\* task is over.
C14_KeyMapMutualExclusion ==
    \A s \in Sims :
        /\ Cardinality(Inside(s)) <= 1
        /\ \A i \in Tasks(s) : (i \in Inside(s)) <=> (mutex[s] = i)
        /\ \A i \in Tasks(s) :
            task[s][i].pc \in {"lock", "insert", "unlock", "done"} =>
                /\ task[s][i].appKey = FreshKey(i)
                /\ [task |-> i, devEUI |-> task[s][i].devEUI, ok |-> TRUE]
                        \in createCalls[s]
        /\ \A i \in Tasks(s) :
            task[s][i].pc \in {"unlock", "done"} =>
                task[s][i].devEUI \in DOMAIN deviceAppKeys[s]
        /\ Cardinality(DOMAIN deviceAppKeys[s]) <=
                Cardinality({i \in Tasks(s) : task[s][i].pc \in {"unlock", "done"}})
        /\ ReadsKeys(s) => \A i \in Tasks(s) : task[s][i].pc = "done"

\* one task is inside its insertion while another waits for the lock
C14_Witness ==
    \E s \in Sims : \E i, j \in Tasks(s) :
        /\ task[s][i].pc = "insert"
        /\ task[s][j].pc = "lock"
        /\ mutex[s] = i

\* start() of s has entered runSimulation
PastSetup(s) == Len(phases[s]) >= 2

\* C15 as stated: in runSimulation and tearDown gatewayIDs has
\* gatewayMaxCount elements, whatever init returned.
C15_GatewayCountAlways ==
    \A s \in Sims :
        PastSetup(s) => Len(gatewayIDs[s]) = cfg[s].gatewayMaxCount

\* C15 amended: in every step from a state of runSimulation or tearDown
\* gatewayIDs is left as it is; it has gatewayMaxCount elements when
\* setupTenant returned nil, and none when init returned the error of
\* setupTenant.
C15_GatewayCountAfterGatewayStep ==
    [][\A s \in Sims :
        PastSetup(s) =>
            /\ gatewayIDs'[s] = gatewayIDs[s]
            /\ ~TenantFailed(s) =>
                    Len(gatewayIDs[s]) = cfg[s].gatewayMaxCount
            /\ TenantFailed(s) => gatewayIDs[s] = <<>>]_vars

\* a simulation is in tearDown with two gateway identities after init
\* returned the error of setupApplication
C15_Witness ==
    \E s \in Sims :
        /\ InTearDown(s)
        /\ phaseErr[s][1] = "get application error"
        /\ Len(gatewayIDs[s]) = 2
        /\ cfg[s].gatewayMaxCount = 2

\* runSimulation of s returns in this step
RunReturns(s) == InRun(s) /\ Len(phaseErr'[s]) = 2

\* C16: the run-phase context has a deadline exactly when duration is not
\* zero, and only then does it time out; the context of a simulation in
\* runSimulation becomes done only when the parent context is cancelled, the
\* signal goroutine calls cancel(), the deadline passes, or runSimulation
\* returns (its deferred cancel()); runSimulation returns nil only when no
\* device holds a slot of its WaitGroup.
C16_DeadlineIffDuration ==
    [][\A s \in Sims :
        /\ ctx'[s].made =>
                /\ ctx'[s].deadline <=> cfg[s].duration # 0
                /\ ctx'[s].timedOut => ctx'[s].deadline
        /\ ~ctx'[s].made => ~ctx'[s].timedOut /\ ~ctx'[s].cancelled
        /\ (InRun(s) /\ ctx[s].made /\ ~CtxDone(s) /\ CtxDone(s)') =>
                \/ parentDone'
                \/ SignalCancel(s)
                \/ ctx'[s].timedOut /\ cfg[s].duration # 0
                \/ RunReturns(s)
        /\ (RunReturns(s) /\ phaseErr'[s][2] = "nil") => runWg[s] = 0]_vars

\* with a duration, the run-phase context of a simulation that stays in
\* runSimulation becomes done, unless the process ends
C16_DeadlineElapses ==
    \A s \in Sims :
        (ctx[s].made /\ cfg[s].duration # 0) ~> (CtxDone(s) \/ ~Alive)

\* runSimulation returned nil after its devices were stopped by the deadline
\* alone: no parent cancellation, no signal
C16_Witness ==
    \E s \in Configured :
        /\ cfg[s].duration # 0
        /\ ctx[s].timedOut
        /\ ~parentDone
        /\ listener[s] \in {"select", "exit"}
        /\ DOMAIN units[s] # {}
        /\ Len(phaseErr[s]) >= 2 /\ phaseErr[s][2] = "nil"

\* the sampling loop of s is under way
Sampling(s) == Alive /\ pc[s] = "sample"

\* C17: from the sampling loop runSimulation reaches its wg.Wait(), unless
\* it returns an error first.
C17_SamplingReachesBarrier ==
    \A s \in Sims :
        Sampling(s) ~> (pc[s] = "runWait" \/ Len(phaseErr[s]) >= 2)

\* the sampling loop itself ends: devGateways comes to hold exactly
\* devNumGateways indexes
C17_SamplingLoopExits ==
    \A s \in Sims :
        Sampling(s) ~> (Cardinality(devGateways[s]) = devNumGateways[s])

\* the process ended where runSimulation of s draws the activation delay
DelayDrawAborted(s) ==
    /\ proc.how = "panic" /\ proc.by = s
    /\ pc[s] = "sample"
    /\ Cardinality(devGateways[s]) >= devNumGateways[s]

\* C18: the activation delay of every device created lies in
\* 0 .. activationTime - 1, and drawing it never ends the process.
C18_DelayInRangeNeverAborts ==
    \A s \in Sims :
        /\ \A e \in DOMAIN units[s] :
                /\ 0 <= units[s][e].otaaDelay
                /\ units[s][e].otaaDelay < cfg[s].activationTime
        /\ ~DelayDrawAborted(s)

\* C19: once Start has returned, with an error or without, the counter is
\* the number of launched simulations that are not Done, so that it is zero
\* when all of them are.
C19_CounterBalanced ==
    startRet # "running" => wg = Cardinality(Unfinished)

\* the identities of the gateways of a device of s
GatewayIDsOfUnit(s, e) ==
    [i \in DOMAIN units[s][e].gws |-> gatewayIDs[s][units[s][e].gws[i] + 1]]

\* C20: the identities in gatewayIDs are pairwise distinct, and so are the
\* identities of the gateways of every device.
C20_GatewayIDsDistinct ==
    \A s \in Sims :
        /\ NoDuplicates(gatewayIDs[s])
        /\ \A e \in DOMAIN units[s] : NoDuplicates(GatewayIDsOfUnit(s, e))

====
